---- MODULE Spec2Model ----
(***************************************************************************)
(* State-machine model of the docker-compose backup scripts:               *)
(*   backup.py      backup_project, rotate_project_backups and helpers     *)
(*   backup_all.py  backup_all_projects                                    *)
(*                                                                         *)
(* A file name is a sequence of string atoms in which the character "."    *)
(* only occurs as the atom "."; a path is a sequence of names, the root    *)
(* being the empty path (the parent directory of the projects).  The local *)
(* file system is the set of paths that exist.                             *)
(***************************************************************************)
EXTENDS Integers, Sequences, FiniteSets, TLC

VARIABLES
    clock,          \* wall clock, in seconds (datetime.datetime.now())
    mclock,         \* modification-time source of uploaded files
    fs,             \* local paths that exist (files and directories)
    partial,        \* files of fs left incomplete by a failed command
    remote,         \* remote destination: entries in listing order
    compose,        \* parsed content of the project's compose file
    mode,           \* "idle" | "single" | "batch" | "rotate"
    runs,           \* number of command invocations so far
    pc,             \* position inside backup_project
    project_dir,    \* backup_project: project_dir
    timestamp,      \* backup_project: timestamp
    keep,           \* backups_to_keep / keep
    volumes,        \* backup_project: volumes
    exported,       \* backup_project: exported_archives
    final_zip_path, \* backup_project: final_zip_path (None is NoPath)
    calls,          \* operations begun by the current run, in order
    outcome,        \* "none" | "ok" | "raised" | "exit" (SystemExit)
    report,         \* what backup_project printed on failure
    failedAt,       \* stage whose failure ended the run, or "none"
    created,        \* paths created by the current run
    archived,       \* paths the project zip written by the current run holds
    overwritten,    \* paths that existed when the current run wrote them
    rotpc,          \* position inside rotate_project_backups
    entries,        \* rotate_project_backups: entries (the parsed listing)
    to_delete,      \* rotate_project_backups: entries still to delete
    project_dirs,   \* backup_all_projects: projects not yet attempted
    attempted,      \* backup_all_projects: projects attempted, in order
    failures,       \* backup_all_projects: failures
    results,        \* how each attempted project's call ended, in order
    batchResult     \* "none" | "ok" | "failed" | "nodirs" | "exit"

envVars == <<clock, mclock, fs, partial, remote, compose>>
runVars == <<pc, project_dir, timestamp, keep, volumes, exported,
             final_zip_path, calls, outcome, report, failedAt, created,
             archived, overwritten>>
rotVars == <<rotpc, entries, to_delete>>
batchVars == <<mode, runs, project_dirs, attempted, failures, results,
              batchResult>>
vars == <<envVars, runVars, rotVars, batchVars>>

----------------------------------------------------------------------------
\* Bounds of the model.

\* Largest value of the wall clock.
MaxClock == 2
\* Number of command invocations (runs of main) in one behaviour.
MaxRuns == 2
\* Largest retention count given on the command line.
MaxKeep == 2
\* Largest number of entries of an enumerated remote listing.
MaxListing == 3
\* Largest modification time of an enumerated remote entry.
MaxOldTime == 2

\* --backups-to-keep default, and the default of backup_project's parameter.
DefaultKeep == 4

----------------------------------------------------------------------------
\* Names and paths.

NoPath == << <<"None">> >>

Root == <<>>

Join(dir, name) == Append(dir, name)

NameOf(path) == path[Len(path)]

DirOf(path) == SubSeq(path, 1, Len(path) - 1)

IsUnder(path, dir) ==
    /\ Len(path) >= Len(dir)
    /\ SubSeq(path, 1, Len(dir)) = dir

\* str.rfind(".") on a name, 1-based; 0 when there is no dot.
RFindDot(name) ==
    LET dots == {i \in 1..Len(name) : name[i] = "."}
    IN IF dots = {} THEN 0 ELSE CHOOSE i \in dots : \A j \in dots : j <= i

\* pathlib: PurePath.suffix of a file name.
Suffix(name) ==
    LET i == RFindDot(name)
    IN IF 1 < i /\ i < Len(name) THEN SubSeq(name, i, Len(name)) ELSE <<>>

\* pathlib: PurePath.with_suffix(".zip").
with_suffix_zip(path) ==
    LET name == NameOf(path)
        stem == SubSeq(name, 1, Len(name) - Len(Suffix(name)))
    IN Join(DirOf(path), stem \o <<".", "zip">>)

\* shutil.make_archive(base_name, "zip", ...) writes base_name + ".zip".
make_archive_target(base) ==
    Join(DirOf(base), NameOf(base) \o <<".", "zip">>)

\* strftime("%Y%m%d-%H%M%S"): one token per second, without a dot.
TsTokens == <<"t1", "t2", "t3", "t4">>

strftime(t) == TsTokens[t]

\* str.endswith(".zip") on a name.
EndsWithZip(name) ==
    /\ Len(name) >= 2
    /\ name[Len(name) - 1] = "."
    /\ name[Len(name)] = "zip"

----------------------------------------------------------------------------
\* String order of names (Python compares str by code point).  The atoms
\* are prefix-free, so comparing atom by atom is comparing the strings.

AtomOrder == <<"-", ".", "/", ":", "_", "app", "backup", "conf", "data",
               "dbdata", "docker", "gz", "my", "o1", "o2", "o3", "o4",
               "p1", "p2", "p3", "p4", "p5", "project", "shop", "t1", "t2",
               "t3", "t4", "tar", "temp", "txt", "var", "volume", "zip",
               "~">>

AtomRank(a) == CHOOSE i \in 1..Len(AtomOrder) : AtomOrder[i] = a

NameLess(a, b) ==
    LET n == IF Len(a) < Len(b) THEN Len(a) ELSE Len(b)
        diff == {i \in 1..n : a[i] # b[i]}
    IN IF diff = {}
       THEN Len(a) < Len(b)
       ELSE LET i == CHOOSE k \in diff : \A j \in diff : k <= j
            IN AtomRank(a[i]) < AtomRank(b[i])

\* sorted(S) for a set of names.
RECURSIVE sorted(_)
sorted(S) ==
    IF S = {} THEN <<>>
    ELSE LET m == CHOOSE x \in S : \A y \in S \ {x} : NameLess(x, y)
         IN <<m>> \o sorted(S \ {m})

----------------------------------------------------------------------------
\* The environment: project directories, user files, volumes, the remote.

ProjectNames == {<<"shop">>, <<"my", ".", "app">>}

\* A project_dir argument that names no directory.
MissingProject == <<"o4">>

\* Files of the user that may lie beside or inside a project.
UserFiles == { << <<"my", ".", "zip">> >>,
               << <<"my", ".", "app">>, <<"my", ".", "zip">> >> }

VolumeNames == {<<"data">>, <<"dbdata">>}

\* The projects of a root directory that holds one project more than a
\* remote keeps archives.
SharedProjects == {<<"p1">>, <<"p2">>, <<"p3">>, <<"p4">>, <<"p5">>}

\* Path.is_dir(): project directories and staging directories.
is_dir(path) ==
    /\ path \in fs
    /\ \/ Len(path) = 1 /\ NameOf(path) \in ProjectNames \cup SharedProjects
       \/ Len(path) = 2 /\ NameOf(path)[1] = "."

Aware(t) == [kind |-> "aware", t |-> t]
Missing == [kind |-> "missing", t |-> 0]
Unparseable == [kind |-> "bad", t |-> 0]

Entry(name, mt) == [Path |-> name, IsDir |-> FALSE, ModTime |-> mt]

OldNames == << <<"o1", ".", "zip">>, <<"o2", ".", "zip">>,
               <<"o3", ".", "zip">>, <<"o4", ".", "zip">> >>

OtherNames == << <<"o1", ".", "txt">>, <<"o2", ".", "txt">>,
                 <<"o3", ".", "txt">>, <<"o4", ".", "txt">> >>

ModTimes == {Aware(t) : t \in 1..MaxOldTime} \cup {Missing, Unparseable}

\* Remote listings of n entries: the i-th entry is an archive or another
\* file, with any modification time.
Listings(n) ==
    {l \in [1..n -> {Entry(nm, mt) : nm \in
                        {OldNames[i] : i \in 1..n} \cup {OtherNames[i] : i \in 1..n},
                     mt \in ModTimes}] :
        \A i \in 1..n : l[i].Path \in {OldNames[i], OtherNames[i]}}

\* The local tree before the first run: one project directory, the dotted
\* one with or without the user's files around it.
InitialTrees ==
    { {<< <<"shop">> >>},
      {<< <<"my", ".", "app">> >>},
      {<< <<"my", ".", "app">> >>} \cup UserFiles }

\* What the remote holds before the first run of the orchestrator.
InitialRemotes ==
    { <<>>,
      <<Entry(OldNames[1], Aware(1))>>,
      <<Entry(OldNames[1], Aware(1)), Entry(OldNames[2], Missing)>> }

----------------------------------------------------------------------------
\* The compose file as yaml.safe_load returns it: services, each with its
\* list of volume mounts, and the top-level volume definitions, a mapping
\* given as its set of key/value pairs.  A string is a sequence of atoms in
\* which ":", "/", "." and "~" only occur as atoms.

\* A mount in the short form "source:target".
ShortForm(text) == [form |-> "str", text |-> text, source |-> <<>>]

\* A mount in the structured form; a missing source is the empty string,
\* which the code treats alike.
LongForm(source) == [form |-> "dict", text |-> <<>>, source |-> source]

\* A top-level definition without a value (None).
NullDef == [dict |-> FALSE, named |-> FALSE, name |-> <<>>]

\* A top-level definition that is a mapping without "name".
PlainDef == [dict |-> TRUE, named |-> FALSE, name |-> <<>>]

\* A top-level definition that is a mapping with "name".
NamedDef(n) == [dict |-> TRUE, named |-> TRUE, name |-> n]

\* v.split(":", 1)[0]
SplitColon(text) ==
    LET colons == {i \in 1..Len(text) : text[i] = ":"}
    IN IF colons = {} THEN text
       ELSE SubSeq(text, 1, (CHOOSE i \in colons : \A j \in colons : i <= j) - 1)

\* "/" in volkey or volkey.startswith(".") or volkey.startswith("~")
IsHostPath(volkey) ==
    \/ \E i \in 1..Len(volkey) : volkey[i] = "/"
    \/ volkey[1] = "."
    \/ volkey[1] = "~"

\* MountNames without the lookup of the top-level definition.
MountNames_KeyOnly(v, top_volumes) ==
    LET volkey == IF v.form = "str" THEN SplitColon(v.text) ELSE v.source
    IN IF volkey = <<>> THEN {}
       ELSE IF IsHostPath(volkey) THEN {}
       ELSE {volkey}

\* MountNames with the top-level definition looked up before the
\* host-path test.
MountNames_DefinitionFirst(v, top_volumes) ==
    LET volkey == IF v.form = "str" THEN SplitColon(v.text) ELSE v.source
        defs == {d \in top_volumes : d.key = volkey}
    IN IF volkey = <<>> THEN {}
       ELSE IF \E d \in defs : d.def.dict /\ d.def.named
            THEN {d.def.name : d \in defs}
            ELSE IF IsHostPath(volkey) THEN {}
            ELSE {volkey}

\* One iteration of the inner loop: what it adds to named_volumes.
MountNames(v, top_volumes) ==
    LET volkey == IF v.form = "str" THEN SplitColon(v.text) ELSE v.source
        defs == {d \in top_volumes : d.key = volkey}
    IN IF volkey = <<>> THEN {}
       ELSE IF IsHostPath(volkey) THEN {}
       ELSE IF \E d \in defs : d.def.dict /\ d.def.named
            THEN {d.def.name : d \in defs}
            ELSE {volkey}

\* The inner loop over the mounts of one service.
RECURSIVE ServiceNames(_, _)
ServiceNames(svc_vols, top_volumes) ==
    IF svc_vols = <<>> THEN {}
    ELSE MountNames(Head(svc_vols), top_volumes)
            \cup ServiceNames(Tail(svc_vols), top_volumes)

\* The outer loop over the services.
RECURSIVE NamedVolumes(_, _)
NamedVolumes(services, top_volumes) ==
    IF services = <<>> THEN {}
    ELSE ServiceNames(Head(services), top_volumes)
            \cup NamedVolumes(Tail(services), top_volumes)

extract_named_volumes(data) == sorted(NamedVolumes(data.services, data.volumes))

\* The compose files of the projects that are backed up: one service per
\* volume, no top-level definitions.
ProjectDescriptors ==
    {[services |-> [i \in 1..Cardinality(S) |->
                       <<ShortForm(sorted(S)[i] \o <<":", "/", "var">>)>>],
      volumes |-> {}] : S \in SUBSET VolumeNames}

----------------------------------------------------------------------------
\* Paths of one run of backup_project.

project_name == NameOf(project_dir)

zip_base ==
    Join(DirOf(project_dir), project_name \o <<"-", "project", "-", timestamp>>)

\* create_project_zip's return value.
project_zip_outside == with_suffix_zip(zip_base)

temp_dir ==
    Join(project_dir,
         <<".", "docker", "-", "backup", "-", "temp", "-", timestamp>>)

project_zip == Join(temp_dir, NameOf(project_zip_outside))

archive_path(vol) ==
    Join(temp_dir,
         <<"volume", "-">> \o vol \o <<"-", timestamp, ".", "tar", ".", "gz">>)

final_base == Join(project_dir, project_name \o <<"-", timestamp>>)

Call(op, arg) == [op |-> op, arg |-> arg]

NoReport == [error |-> FALSE, paths |-> {}]

\* An exception raised before the try block: it carries its message, and
\* nothing else is printed.
Raise(stage) ==
    /\ pc' = "failed"
    /\ outcome' = "raised"
    /\ failedAt' = stage
    /\ report' = [error |-> TRUE, paths |-> {}]

\* The except block of backup_project.
Except(stage) ==
    /\ pc' = "failed"
    /\ outcome' = "raised"
    /\ failedAt' = stage
    /\ report' = [error |-> TRUE,
                  paths |-> {temp_dir} \cup
                            (IF final_zip_path # NoPath
                             THEN {final_zip_path} ELSE {})]

----------------------------------------------------------------------------
\* backup_project, one action per stage.

\* Entry: resolve and validate the project path, take the timestamp.
backup_project(p, k) ==
    /\ project_dir' = p
    /\ keep' = k
    /\ timestamp' = strftime(clock)
    /\ volumes' = <<>>
    /\ exported' = <<>>
    /\ final_zip_path' = NoPath
    /\ calls' = <<>>
    /\ created' = {}
    /\ archived' = {}
    /\ overwritten' = {}
    /\ rotpc' = "idle"
    /\ entries' = <<>>
    /\ to_delete' = <<>>
    /\ IF is_dir(p)
       THEN /\ pc' = "zip"
            /\ outcome' = "none"
            /\ failedAt' = "none"
            /\ report' = NoReport
       ELSE Raise("validate")
    /\ UNCHANGED envVars

\* What make_archive(root_dir = project_dir) walks: all that lies in the
\* project directory.
ProjectTree == {x \in fs : IsUnder(x, project_dir) /\ x # project_dir}

\* create_project_zip; a failing make_archive may leave a partial file.
CreateProjectZip ==
    /\ pc = "zip"
    /\ calls' = Append(calls, Call("zip", make_archive_target(zip_base)))
    /\ LET target == make_archive_target(zip_base)
       IN \/ /\ fs' = fs \cup {target}
             /\ partial' = partial \ {target}
             /\ created' = created \cup {target}
             /\ overwritten' = overwritten \cup ({target} \cap fs)
             /\ archived' = ProjectTree
             /\ pc' = "mkdir"
             /\ UNCHANGED <<outcome, report, failedAt>>
          \/ /\ \E left \in BOOLEAN :
                  /\ fs' = IF left THEN fs \cup {target} ELSE fs
                  /\ partial' = IF left THEN partial \cup {target} ELSE partial
                  /\ created' = IF left THEN created \cup {target} ELSE created
                  /\ overwritten' = IF left THEN overwritten \cup ({target} \cap fs)
                                    ELSE overwritten
             /\ archived' = {}
             /\ Raise("zip")
    /\ UNCHANGED <<clock, mclock, remote, project_dir, timestamp, keep, volumes,
                   exported, final_zip_path, rotVars, batchVars,
                   compose>>

MkTempDir ==
    /\ pc = "mkdir"
    /\ calls' = Append(calls, Call("mkdir", temp_dir))
    /\ IF temp_dir \in fs
       THEN \* FileExistsError: print and sys.exit(1)
            /\ pc' = "failed"
            /\ outcome' = "exit"
            /\ failedAt' = "mkdir"
            /\ report' = [error |-> TRUE, paths |-> {temp_dir}]
            /\ UNCHANGED <<fs, created>>
       ELSE \/ /\ fs' = fs \cup {temp_dir}
               /\ created' = created \cup {temp_dir}
               /\ pc' = "move"
               /\ UNCHANGED <<outcome, report, failedAt>>
            \/ /\ Raise("mkdir")
               /\ UNCHANGED <<fs, created>>
    /\ UNCHANGED <<clock, mclock, partial, remote, project_dir, timestamp, keep,
                   volumes, exported, final_zip_path, rotVars, batchVars,
                   compose, archived, overwritten>>

MoveProjectZip ==
    /\ pc = "move"
    /\ calls' = Append(calls, Call("move", project_zip_outside))
    /\ LET src == project_zip_outside
           dst == project_zip
       IN IF src \notin fs
          THEN \* FileNotFoundError
               /\ Raise("move")
               /\ UNCHANGED <<fs, partial, created, overwritten>>
          ELSE \/ /\ fs' = (fs \ {src}) \cup {dst}
                  /\ partial' = IF src \in partial
                                THEN (partial \ {src}) \cup {dst}
                                ELSE partial \ {dst}
                  /\ created' = (created \ {src}) \cup {dst}
                  /\ overwritten' = overwritten \cup ({dst} \cap fs)
                  /\ pc' = "discover"
                  /\ UNCHANGED <<outcome, report, failedAt>>
               \/ /\ Raise("move")
                  /\ UNCHANGED <<fs, partial, created, overwritten>>
    /\ UNCHANGED <<clock, mclock, remote, project_dir, timestamp, keep, volumes,
                   exported, final_zip_path, rotVars, batchVars,
                   compose, archived>>

\* find_compose_file and extract_named_volumes.
Discover ==
    /\ pc = "discover"
    /\ calls' = Append(calls, Call("discover", project_dir))
    /\ \/ /\ volumes' = extract_named_volumes(compose)
          /\ pc' = "detect"
          /\ UNCHANGED <<outcome, report, failedAt>>
       \/ /\ Except("discover")
          /\ UNCHANGED volumes
    /\ UNCHANGED <<envVars, project_dir, timestamp, keep, exported,
                   final_zip_path, created, rotVars, batchVars,
                   archived, overwritten>>

\* DetectCompose with the services stopped before the compose command is
\* looked for.
DetectCompose_DownFirst ==
    /\ pc = "detect"
    /\ calls' = calls \o <<Call("down", project_dir), Call("detect", project_dir)>>
    /\ \/ /\ pc' = IF volumes = <<>> THEN "up" ELSE "export"
          /\ UNCHANGED <<outcome, report, failedAt>>
       \/ Except("detect")
    /\ UNCHANGED <<envVars, project_dir, timestamp, keep, volumes, exported,
                   final_zip_path, created, rotVars, batchVars,
                   archived, overwritten>>

\* detect_docker_compose_command
DetectCompose ==
    /\ pc = "detect"
    /\ calls' = Append(calls, Call("detect", project_dir))
    /\ \/ /\ pc' = "down"
          /\ UNCHANGED <<outcome, report, failedAt>>
       \/ Except("detect")
    /\ UNCHANGED <<envVars, project_dir, timestamp, keep, volumes, exported,
                   final_zip_path, created, rotVars, batchVars,
                   archived, overwritten>>

\* ComposeDown with the services left running when there is no volume.
ComposeDown_SkipWhenNoVolumes ==
    /\ pc = "down"
    /\ IF volumes = <<>>
       THEN /\ pc' = "bundle"
            /\ UNCHANGED <<calls, outcome, report, failedAt>>
       ELSE /\ calls' = Append(calls, Call("down", project_dir))
            /\ \/ /\ pc' = "export"
                  /\ UNCHANGED <<outcome, report, failedAt>>
               \/ Except("down")
    /\ UNCHANGED <<envVars, project_dir, timestamp, keep, volumes, exported,
                   final_zip_path, created, rotVars, batchVars,
                   archived, overwritten>>

\* docker compose down
ComposeDown ==
    /\ pc = "down"
    /\ calls' = Append(calls, Call("down", project_dir))
    /\ \/ /\ pc' = IF volumes = <<>> THEN "up" ELSE "export"
          /\ UNCHANGED <<outcome, report, failedAt>>
       \/ Except("down")
    /\ UNCHANGED <<envVars, project_dir, timestamp, keep, volumes, exported,
                   final_zip_path, created, rotVars, batchVars,
                   archived, overwritten>>

\* ExportVolume with the services restarted when an export fails.
ExportVolume_RestartOnFailure ==
    /\ pc = "export"
    /\ LET vol == volumes[Len(exported) + 1]
           a == archive_path(vol)
       IN \/ /\ calls' = Append(calls, Call("export", a))
             /\ fs' = fs \cup {a}
             /\ partial' = partial \ {a}
             /\ created' = created \cup {a}
             /\ overwritten' = overwritten \cup ({a} \cap fs)
             /\ exported' = Append(exported, a)
             /\ pc' = IF Len(exported) + 1 = Len(volumes)
                      THEN "up" ELSE "export"
             /\ UNCHANGED <<outcome, report, failedAt>>
          \/ /\ calls' = calls \o <<Call("export", a), Call("up", project_dir)>>
             /\ \E left \in BOOLEAN :
                  /\ fs' = IF left THEN fs \cup {a} ELSE fs
                  /\ partial' = IF left THEN partial \cup {a} ELSE partial
                  /\ created' = IF left THEN created \cup {a} ELSE created
                  /\ overwritten' = IF left THEN overwritten \cup ({a} \cap fs)
                                    ELSE overwritten
             /\ Except("export")
             /\ UNCHANGED exported
    /\ UNCHANGED <<clock, mclock, remote, project_dir, timestamp, keep, volumes,
                   final_zip_path, rotVars, batchVars,
                   compose, archived>>

\* One iteration of the export loop: export_volume(vol, temp_dir, timestamp).
ExportVolume ==
    /\ pc = "export"
    /\ LET vol == volumes[Len(exported) + 1]
           a == archive_path(vol)
       IN /\ calls' = Append(calls, Call("export", a))
          /\ \/ /\ fs' = fs \cup {a}
                /\ partial' = partial \ {a}
                /\ created' = created \cup {a}
                /\ overwritten' = overwritten \cup ({a} \cap fs)
                /\ exported' = Append(exported, a)
                /\ pc' = IF Len(exported) + 1 = Len(volumes)
                         THEN "up" ELSE "export"
                /\ UNCHANGED <<outcome, report, failedAt>>
             \/ /\ \E left \in BOOLEAN :
                     /\ fs' = IF left THEN fs \cup {a} ELSE fs
                     /\ partial' = IF left THEN partial \cup {a} ELSE partial
                     /\ created' = IF left THEN created \cup {a} ELSE created
                     /\ overwritten' = IF left THEN overwritten \cup ({a} \cap fs)
                                       ELSE overwritten
                /\ Except("export")
                /\ UNCHANGED exported
    /\ UNCHANGED <<clock, mclock, remote, project_dir, timestamp, keep, volumes,
                   final_zip_path, rotVars, batchVars,
                   compose, archived>>

ComposeUp ==
    /\ pc = "up"
    /\ calls' = Append(calls, Call("up", project_dir))
    /\ \/ /\ pc' = "bundle"
          /\ UNCHANGED <<outcome, report, failedAt>>
       \/ Except("up")
    /\ UNCHANGED <<envVars, project_dir, timestamp, keep, volumes, exported,
                   final_zip_path, created, rotVars, batchVars,
                   archived, overwritten>>

\* create_final_zip_from_temp: on failure final_zip_path is still None.
CreateFinalZip ==
    /\ pc = "bundle"
    /\ calls' = Append(calls, Call("bundle", make_archive_target(final_base)))
    /\ LET target == make_archive_target(final_base)
       IN \/ /\ fs' = fs \cup {target}
             /\ partial' = partial \ {target}
             /\ created' = created \cup {target}
             /\ overwritten' = overwritten \cup ({target} \cap fs)
             /\ final_zip_path' = with_suffix_zip(final_base)
             /\ pc' = "upload"
             /\ UNCHANGED <<outcome, report, failedAt>>
          \/ /\ \E left \in BOOLEAN :
                  /\ fs' = IF left THEN fs \cup {target} ELSE fs
                  /\ partial' = IF left THEN partial \cup {target} ELSE partial
                  /\ created' = IF left THEN created \cup {target} ELSE created
                  /\ overwritten' = IF left THEN overwritten \cup ({target} \cap fs)
                                    ELSE overwritten
             /\ Except("bundle")
             /\ UNCHANGED final_zip_path
    /\ UNCHANGED <<clock, mclock, remote, project_dir, timestamp, keep, volumes,
                   exported, rotVars, batchVars,
                   compose, archived>>

\* The remote after a file named name was copied to it.
Put(rem, name, mt) ==
    IF \E i \in 1..Len(rem) : rem[i].Path = name
    THEN [i \in 1..Len(rem) |->
            IF rem[i].Path = name THEN Entry(name, mt) ELSE rem[i]]
    ELSE Append(rem, Entry(name, mt))

\* RcloneCopy with a failed upload tried a second time.
RcloneCopy_RetryOnce ==
    /\ pc = "upload"
    /\ calls' = Append(calls, Call("upload", final_zip_path))
    /\ \/ /\ final_zip_path \in fs
          /\ remote' = Put(remote, NameOf(final_zip_path), Aware(mclock))
          /\ mclock' = mclock + 1
          /\ pc' = "rmtree"
          /\ UNCHANGED <<outcome, report, failedAt>>
       \/ /\ calls = <<>> \/ calls[Len(calls)].op # "upload"
          /\ UNCHANGED <<remote, mclock, pc, outcome, report, failedAt>>
       \/ /\ calls # <<>> /\ calls[Len(calls)].op = "upload"
          /\ Except("upload")
          /\ UNCHANGED <<remote, mclock>>
    /\ UNCHANGED <<clock, fs, partial, project_dir, timestamp, keep, volumes,
                   exported, final_zip_path, created, rotVars, batchVars,
                   compose, archived, overwritten>>

\* rclone_copy_file(final_zip_path, remote, remote_path): rclone fails on a
\* source that does not exist.
RcloneCopy ==
    /\ pc = "upload"
    /\ calls' = Append(calls, Call("upload", final_zip_path))
    /\ IF final_zip_path \notin fs
       THEN /\ Except("upload")
            /\ UNCHANGED <<remote, mclock>>
       ELSE \/ /\ remote' = Put(remote, NameOf(final_zip_path), Aware(mclock))
               /\ mclock' = mclock + 1
               /\ pc' = "rmtree"
               /\ UNCHANGED <<outcome, report, failedAt>>
            \/ /\ Except("upload")
               /\ UNCHANGED <<remote, mclock>>
    /\ UNCHANGED <<clock, fs, partial, project_dir, timestamp, keep, volumes,
                   exported, final_zip_path, created, rotVars, batchVars,
                   compose, archived, overwritten>>

\* RemoveTempDir with a failing rmtree logged and the run going on.
RemoveTempDir_BestEffort ==
    /\ pc = "rmtree"
    /\ calls' = Append(calls, Call("rmtree", temp_dir))
    /\ \/ /\ fs' = {x \in fs : ~IsUnder(x, temp_dir)}
          /\ partial' = {x \in partial : ~IsUnder(x, temp_dir)}
          /\ UNCHANGED failedAt
       \/ /\ \E gone \in SUBSET {x \in fs : IsUnder(x, temp_dir) /\ x # temp_dir} :
               /\ fs' = fs \ gone
               /\ partial' = partial \ gone
          /\ failedAt' = "rmtree"
    /\ pc' = "unlink"
    /\ UNCHANGED <<clock, mclock, remote, project_dir, timestamp, keep, volumes,
                   exported, final_zip_path, created, rotVars, batchVars,
                   outcome, report,
                   compose, archived, overwritten>>

\* shutil.rmtree(temp_dir); a failing rmtree may have removed some content.
RemoveTempDir ==
    /\ pc = "rmtree"
    /\ calls' = Append(calls, Call("rmtree", temp_dir))
    /\ \/ /\ fs' = {x \in fs : ~IsUnder(x, temp_dir)}
          /\ partial' = {x \in partial : ~IsUnder(x, temp_dir)}
          /\ pc' = "unlink"
          /\ UNCHANGED <<outcome, report, failedAt>>
       \/ /\ \E gone \in SUBSET {x \in fs : IsUnder(x, temp_dir) /\ x # temp_dir} :
               /\ fs' = fs \ gone
               /\ partial' = partial \ gone
          /\ Except("rmtree")
    /\ UNCHANGED <<clock, mclock, remote, project_dir, timestamp, keep, volumes,
                   exported, final_zip_path, created, rotVars, batchVars,
                   compose, archived, overwritten>>

\* if final_zip_path.exists(): final_zip_path.unlink(); then rotation starts.
UnlinkFinalZip ==
    /\ pc = "unlink"
    /\ IF final_zip_path \in fs
       THEN /\ calls' = Append(calls, Call("unlink", final_zip_path))
            /\ \/ /\ fs' = fs \ {final_zip_path}
                  /\ partial' = partial \ {final_zip_path}
                  /\ pc' = "rotate"
                  /\ rotpc' = "start"
                  /\ UNCHANGED <<outcome, report, failedAt>>
               \/ /\ Except("unlink")
                  /\ UNCHANGED <<fs, partial, rotpc>>
       ELSE /\ pc' = "rotate"
            /\ rotpc' = "start"
            /\ UNCHANGED <<fs, partial, outcome, report, failedAt, calls>>
    /\ UNCHANGED <<clock, mclock, remote, project_dir, timestamp, keep, volumes,
                   exported, final_zip_path, created, entries,
                   to_delete, batchVars,
                   compose, archived, overwritten>>

----------------------------------------------------------------------------
\* rotate_project_backups.

\* datetime.datetime.min: a naive datetime.
DatetimeMin == [aware |-> FALSE, t |-> 0]

\* _parse_time: rclone's RFC3339 times carry an offset and parse as aware
\* datetimes; a missing or unparseable time gives datetime.min.
_parse_time(mod_time) ==
    IF mod_time.kind = "missing" THEN DatetimeMin
    ELSE IF mod_time.kind = "bad" THEN DatetimeMin
    ELSE [aware |-> TRUE, t |-> mod_time.t]

SortKey(e) == _parse_time(e.ModTime)

\* Comparing a naive with an aware datetime raises TypeError; sorting two
\* or more entries compares keys of both kinds as soon as both occur.
SortRaises(bs) ==
    \E i, j \in 1..Len(bs) : SortKey(bs[i]).aware # SortKey(bs[j]).aware

\* The zip files of the listing.
Backups(listing) ==
    SelectSeq(listing, LAMBDA e : ~e.IsDir /\ EndsWithZip(e.Path))

\* list.sort(key=...): ascending and stable.
RECURSIVE InsertSorted(_, _)
InsertSorted(e, s) ==
    IF s = <<>> THEN <<e>>
    ELSE IF SortKey(e).t < SortKey(Head(s)).t
         THEN <<e>> \o s
         ELSE <<Head(s)>> \o InsertSorted(e, Tail(s))

RECURSIVE SortByTime(_)
SortByTime(bs) ==
    IF bs = <<>> THEN <<>>
    ELSE InsertSorted(bs[Len(bs)], SortByTime(SubSeq(bs, 1, Len(bs) - 1)))

\* backups[keep:], the slice taken from the wrong end.
ToDelete_Newest(sortedBackups, k) == SubSeq(sortedBackups, k + 1, Len(sortedBackups))

\* backups[:-keep]
ToDelete(sortedBackups, k) == SubSeq(sortedBackups, 1, Len(sortedBackups) - k)

\* RotateList with a failing listing taken for an empty one.
RotateList_ListingFailureIgnored ==
    /\ rotpc = "start"
    /\ IF keep < 1
       THEN \* ValueError
            /\ rotpc' = "raised"
            /\ failedAt' = "keep"
            /\ UNCHANGED <<calls, entries, to_delete>>
       ELSE /\ calls' = Append(calls, Call("lsjson", Root))
            /\ \/ /\ rotpc' = "returned"
                  /\ failedAt' \in {"lsjson", "json"}
                  /\ UNCHANGED <<entries, to_delete>>
               \/ LET backups == Backups(remote)
                  IN /\ entries' = remote
                     /\ IF SortRaises(backups)
                        THEN \* TypeError
                             /\ rotpc' = "raised"
                             /\ failedAt' = "sort"
                             /\ UNCHANGED to_delete
                        ELSE IF Len(backups) <= keep
                        THEN /\ rotpc' = "returned"
                             /\ UNCHANGED <<to_delete, failedAt>>
                        ELSE /\ to_delete' = ToDelete(SortByTime(backups), keep)
                             /\ rotpc' = "delete"
                             /\ UNCHANGED failedAt
    /\ UNCHANGED <<envVars, pc, project_dir, timestamp, keep, volumes, exported,
                   final_zip_path, outcome, report, created, batchVars,
                   archived, overwritten>>

\* RotateList with keep validated after the listing was fetched.
RotateList_KeepCheckedLate ==
    /\ rotpc = "start"
    /\ calls' = Append(calls, Call("lsjson", Root))
    /\ IF keep < 1
       THEN \* ValueError
            /\ rotpc' = "raised"
            /\ failedAt' = "keep"
            /\ UNCHANGED <<entries, to_delete>>
       ELSE \/ /\ rotpc' = "raised"
               /\ failedAt' \in {"lsjson", "json"}
               /\ UNCHANGED <<entries, to_delete>>
            \/ LET backups == Backups(remote)
               IN /\ entries' = remote
                  /\ IF SortRaises(backups)
                     THEN \* TypeError
                          /\ rotpc' = "raised"
                          /\ failedAt' = "sort"
                          /\ UNCHANGED to_delete
                     ELSE IF Len(backups) <= keep
                     THEN /\ rotpc' = "returned"
                          /\ UNCHANGED <<to_delete, failedAt>>
                     ELSE /\ to_delete' = ToDelete(SortByTime(backups), keep)
                          /\ rotpc' = "delete"
                          /\ UNCHANGED failedAt
    /\ UNCHANGED <<envVars, pc, project_dir, timestamp, keep, volumes, exported,
                   final_zip_path, outcome, report, created, batchVars,
                   archived, overwritten>>

\* Validation, listing, parsing, filtering and sorting.
RotateList ==
    /\ rotpc = "start"
    /\ IF keep < 1
       THEN \* ValueError
            /\ rotpc' = "raised"
            /\ failedAt' = "keep"
            /\ UNCHANGED <<calls, entries, to_delete>>
       ELSE /\ calls' = Append(calls, Call("lsjson", Root))
            /\ \/ /\ rotpc' = "raised"
                  /\ failedAt' \in {"lsjson", "json"}
                  /\ UNCHANGED <<entries, to_delete>>
               \/ LET backups == Backups(remote)
                  IN /\ entries' = remote
                     /\ IF SortRaises(backups)
                        THEN \* TypeError
                             /\ rotpc' = "raised"
                             /\ failedAt' = "sort"
                             /\ UNCHANGED to_delete
                        ELSE IF Len(backups) <= keep
                        THEN /\ rotpc' = "returned"
                             /\ UNCHANGED <<to_delete, failedAt>>
                        ELSE /\ to_delete' = ToDelete(SortByTime(backups), keep)
                             /\ rotpc' = "delete"
                             /\ UNCHANGED failedAt
    /\ UNCHANGED <<envVars, pc, project_dir, timestamp, keep, volumes, exported,
                   final_zip_path, outcome, report, created, batchVars,
                   archived, overwritten>>

\* One iteration of the delete loop: rclone deletefile.
RotateDelete ==
    /\ rotpc = "delete"
    /\ LET entry == Head(to_delete)
           rel_path == entry.Path
       IN /\ calls' = Append(calls, Call("deletefile", <<rel_path>>))
          /\ \/ /\ remote' = SelectSeq(remote, LAMBDA e : e.Path # rel_path)
                /\ to_delete' = Tail(to_delete)
                /\ rotpc' = IF Tail(to_delete) = <<>> THEN "returned" ELSE "delete"
                /\ UNCHANGED failedAt
             \/ /\ rotpc' = "raised"
                /\ failedAt' = "deletefile"
                /\ UNCHANGED <<remote, to_delete>>
    /\ UNCHANGED <<clock, mclock, fs, partial, pc, project_dir, timestamp, keep,
                   volumes, exported, final_zip_path, outcome, report, created,
                   entries, batchVars,
                   compose, archived, overwritten>>

\* rotate_project_backups returned: backup_project returns final_zip_path.
RotationDone ==
    /\ pc = "rotate"
    /\ rotpc = "returned"
    /\ pc' = "done"
    /\ outcome' = "ok"
    /\ UNCHANGED <<envVars, project_dir, timestamp, keep, volumes, exported,
                   final_zip_path, calls, report, failedAt, created, rotVars,
                   batchVars,
                   archived, overwritten>>

\* rotate_project_backups raised: the except block runs.
RotationRaised ==
    /\ pc = "rotate"
    /\ rotpc = "raised"
    /\ Except(failedAt)
    /\ UNCHANGED <<envVars, project_dir, timestamp, keep, volumes, exported,
                   final_zip_path, calls, created, rotVars, batchVars,
                   archived, overwritten>>

----------------------------------------------------------------------------
\* backup.py main: one project per invocation.

\* The locals of backup_project go away when it returns or raises.
Forget ==
    /\ pc' = "idle"
    /\ project_dir' = NoPath
    /\ timestamp' = strftime(1)
    /\ keep' = DefaultKeep
    /\ volumes' = <<>>
    /\ exported' = <<>>
    /\ final_zip_path' = NoPath
    /\ calls' = <<>>
    /\ outcome' = "none"
    /\ report' = NoReport
    /\ failedAt' = "none"
    /\ created' = {}
    /\ archived' = {}
    /\ overwritten' = {}
    /\ rotpc' = "idle"
    /\ entries' = <<>>
    /\ to_delete' = <<>>

ProjectArgs == {<<n>> : n \in ProjectNames \cup {MissingProject}}

MainBackup ==
    /\ mode = "idle"
    /\ runs < MaxRuns
    /\ \E p \in ProjectArgs, k \in 0..MaxKeep : backup_project(p, k)
    /\ mode' = "single"
    /\ runs' = runs + 1
    /\ UNCHANGED <<project_dirs, attempted, failures, results, batchResult>>

\* backup_project returned or raised: the process exits with 0 or 1.
MainExit ==
    /\ mode = "single"
    /\ pc \in {"done", "failed"}
    /\ mode' = "idle"
    /\ Forget
    /\ UNCHANGED <<envVars, runs, project_dirs, attempted, failures, results,
                   batchResult>>

\* Time passes; the clock is only read when a run starts.
Tick ==
    /\ mode = "idle" \/ (mode = "batch" /\ pc = "idle")
    /\ clock < MaxClock
    /\ clock' = clock + 1
    /\ UNCHANGED <<mclock, fs, partial, remote, compose, runVars, rotVars,
                   batchVars>>

----------------------------------------------------------------------------
\* backup_all.py.

\* iter_project_dirs: sorted(root.iterdir()), keeping the directories.
iter_project_dirs(root) ==
    LET names == {NameOf(x) : x \in {y \in fs : DirOf(y) = root /\ y # root}}
        paths == [i \in 1..Cardinality(names) |-> Join(root, sorted(names)[i])]
    IN SelectSeq(paths, is_dir)

BackupAllStart ==
    /\ mode = "idle"
    /\ runs < MaxRuns
    /\ runs' = runs + 1
    /\ LET dirs == iter_project_dirs(Root)
       IN IF dirs = <<>>
          THEN \* FileNotFoundError
               /\ batchResult' = "nodirs"
               /\ UNCHANGED <<mode, project_dirs, attempted, failures, results,
                              pc>>
          ELSE /\ mode' = "batch"
               /\ project_dirs' = dirs
               /\ attempted' = <<>>
               /\ failures' = <<>>
               /\ results' = <<>>
               /\ batchResult' = "none"
               /\ pc' = "idle"
    /\ UNCHANGED <<envVars, project_dir, timestamp, keep, volumes, exported,
                   final_zip_path, calls, outcome, report, failedAt, created,
                   rotVars,
                   archived, overwritten>>

\* The loop body's call: backup_project(project_dir, rclone_remote, remote_path).
BatchCall ==
    /\ mode = "batch"
    /\ pc = "idle"
    /\ project_dirs # <<>>
    /\ backup_project(Head(project_dirs), DefaultKeep)
    /\ project_dirs' = Tail(project_dirs)
    /\ attempted' = Append(attempted, Head(project_dirs))
    /\ UNCHANGED <<mode, runs, failures, results, batchResult>>

\* The call returned, raised an Exception (caught and recorded) or raised
\* SystemExit (not an Exception: it leaves the loop and the process).
BatchReturn ==
    /\ mode = "batch"
    /\ pc \in {"done", "failed"}
    /\ Forget
    /\ results' = Append(results, [p |-> project_dir, outcome |-> outcome])
    /\ IF outcome = "exit"
       THEN /\ batchResult' = "exit"
            /\ mode' = "idle"
            /\ UNCHANGED failures
       ELSE /\ failures' = IF outcome = "raised"
                           THEN Append(failures,
                                       [p |-> project_dir, err |-> failedAt])
                           ELSE failures
            /\ UNCHANGED <<mode, batchResult>>
    /\ UNCHANGED <<envVars, runs, project_dirs, attempted>>

\* After the loop: raise the aggregate RuntimeError, or return.
BatchFinish ==
    /\ mode = "batch"
    /\ pc = "idle"
    /\ project_dirs = <<>>
    /\ batchResult' = IF failures # <<>> THEN "failed" ELSE "ok"
    /\ mode' = "idle"
    /\ UNCHANGED <<envVars, runVars, rotVars, runs, project_dirs, attempted,
                   failures, results>>

----------------------------------------------------------------------------
\* Specifications.

InitRun ==
    /\ pc = "idle"
    /\ project_dir = NoPath
    /\ timestamp = strftime(1)
    /\ volumes = <<>>
    /\ exported = <<>>
    /\ final_zip_path = NoPath
    /\ calls = <<>>
    /\ outcome = "none"
    /\ report = NoReport
    /\ failedAt = "none"
    /\ created = {}
    /\ archived = {}
    /\ overwritten = {}
    /\ entries = <<>>
    /\ to_delete = <<>>
    /\ project_dirs = <<>>
    /\ attempted = <<>>
    /\ failures = <<>>
    /\ results = <<>>
    /\ batchResult = "none"
    /\ runs = 0

InitEnv ==
    /\ clock = 1
    /\ mclock = MaxOldTime + 1
    /\ partial = {}

\* One project directory, with or without the user's files around it.
Init ==
    /\ InitEnv
    /\ InitRun
    /\ fs \in InitialTrees
    /\ remote \in InitialRemotes
    /\ compose \in ProjectDescriptors
    /\ keep = DefaultKeep
    /\ mode = "idle"
    /\ rotpc = "idle"

RunStep ==
    \/ CreateProjectZip
    \/ MkTempDir
    \/ MoveProjectZip
    \/ Discover
    \/ DetectCompose
    \/ ComposeDown
    \/ ExportVolume
    \/ ComposeUp
    \/ CreateFinalZip
    \/ RcloneCopy
    \/ RemoveTempDir
    \/ UnlinkFinalZip
    \/ RotateList
    \/ RotateDelete
    \/ RotationDone
    \/ RotationRaised

\* Invocations of backup.py, one after the other.
Next ==
    \/ MainBackup
    \/ MainExit
    \/ Tick
    \/ RunStep

Spec == Init /\ [][Next]_vars

\* Invocations of backup_all.py, one after the other.
NextBatch ==
    \/ BackupAllStart
    \/ BatchCall
    \/ BatchReturn
    \/ BatchFinish
    \/ Tick
    \/ RunStep

\* A root directory holding every project; the remote is empty or holds
\* DefaultKeep archives already.
InitBatch ==
    /\ InitEnv
    /\ InitRun
    /\ fs = {<<n>> : n \in ProjectNames}
    /\ remote \in {<<>>, [i \in 1..DefaultKeep |-> Entry(OldNames[i], Aware(1))]}
    /\ compose \in ProjectDescriptors
    /\ keep = DefaultKeep
    /\ mode = "idle"
    /\ rotpc = "idle"

SpecBatch == InitBatch /\ [][NextBatch]_vars

\* rotate_project_backups called on any listing with any keep.
InitRotate ==
    /\ InitEnv
    /\ InitRun
    /\ fs = {}
    /\ compose \in {d \in ProjectDescriptors : d.services = <<>>}
    /\ \E n \in 0..MaxListing : remote \in Listings(n)
    /\ \E k \in 0..MaxKeep : keep = k
    /\ mode = "rotate"
    /\ rotpc = "start"

NextRotate ==
    \/ RotateList
    \/ RotateDelete

SpecRotate == InitRotate /\ [][NextRotate]_vars

----------------------------------------------------------------------------
\* Vocabulary of the properties.

CallsOf(op) == SelectSeq(calls, LAMBDA c : c.op = op)

Count(op) == Len(CallsOf(op))

\* The archive create_project_zip writes: <projectName>-project-<timestamp>.zip
TreeArchive == make_archive_target(zip_base)

\* The archive create_final_zip_from_temp writes: <projectName>-<timestamp>.zip
FinalBundle == make_archive_target(final_base)

\* What lies in the staging directory.
InStaging == {x \in fs : IsUnder(x, temp_dir) /\ x # temp_dir}

\* The upload command was issued and returned 0.
UploadSucceeded == Count("upload") = 1 /\ pc # "upload" /\ failedAt # "upload"

\* The final bundle of this run was uploaded.
BundleUploaded == UploadSucceeded /\ CallsOf("upload")[1].arg = FinalBundle

\* Artifacts of this run that no longer exist locally.
Deleted == created \ fs

----------------------------------------------------------------------------
\* C1: a run of backup_project that ends in success leaves neither the
\* staging directory, nor the project tree archive, nor the final bundle
\* on the local disk, and has issued exactly one upload, of the final bundle
\* <projectName>-<timestamp>.zip.
C1_SuccessLeavesNothingLocal ==
    outcome = "ok" =>
        /\ temp_dir \notin fs
        /\ InStaging = {}
        /\ TreeArchive \notin fs
        /\ FinalBundle \notin fs
        /\ Count("upload") = 1
        /\ CallsOf("upload")[1].arg = FinalBundle

\* C2: when the export of the k-th volume fails, the run has stopped the
\* services exactly once and not restarted them, the staging directory
\* exists, and the volume archives completed in it are exactly those of
\* the k - 1 volumes before the failing one; no later volume has a file.
C2_ExportFailureKeepsEarlierExports ==
    (pc = "failed" /\ failedAt = "export") =>
        LET k == Count("export")
            complete == {x \in InStaging \ partial : x # project_zip}
        IN /\ Count("down") = 1
           /\ Count("up") = 0
           /\ temp_dir \in fs
           /\ k \in 1..Len(volumes)
           /\ complete = {archive_path(volumes[i]) : i \in 1..(k - 1)}
           /\ \A i \in (k + 1)..Len(volumes) : archive_path(volumes[i]) \notin fs
           /\ archive_path(volumes[k]) \in fs => archive_path(volumes[k]) \in partial

\* C2 witness: the second of two volumes failed after the first was exported.
C2_Witness ==
    /\ pc = "failed"
    /\ failedAt = "export"
    /\ Len(volumes) = 2
    /\ Count("export") = 2
    /\ archive_path(volumes[1]) \in fs \ partial
    /\ archive_path(volumes[2]) \in partial

\* C3: nothing the run created locally has been deleted unless the final
\* bundle has been uploaded successfully.
C3_NothingDeletedBeforeUpload ==
    Deleted # {} => BundleUploaded

\* C4: when a batch has ended, the per-project workflow has been attempted
\* exactly once for every immediate subdirectory of the root, in name
\* order, whatever happened to the earlier projects.
C4_EveryProjectAttempted ==
    batchResult \in {"ok", "failed", "exit"} =>
        /\ Len(attempted) = Cardinality(ProjectNames)
        /\ {attempted[i] : i \in 1..Len(attempted)} = {<<n>> : n \in ProjectNames}
        /\ \A i, j \in 1..Len(attempted) :
              i < j => NameLess(NameOf(attempted[i]), NameOf(attempted[j]))

\* C5: a batch reports success exactly when every project succeeded;
\* otherwise it reports, after the last project, one aggregate failure
\* whose summary names exactly the projects that failed.
C5_BatchReportsAggregate ==
    batchResult \in {"ok", "failed", "exit"} =>
        LET failed == {results[i].p : i \in {j \in 1..Len(results) :
                                               results[j].outcome # "ok"}}
            all == Len(results) = Cardinality(ProjectNames)
        IN /\ batchResult = "ok" <=> (all /\ failed = {})
           /\ batchResult # "ok" =>
                 /\ batchResult = "failed"
                 /\ all
                 /\ {failures[i].p : i \in 1..Len(failures)} = failed

----------------------------------------------------------------------------
\* Vocabulary of the rotation properties, over the listing as it was read.

Archives ==
    {i \in 1..Len(entries) : ~entries[i].IsDir /\ EndsWithZip(entries[i].Path)}

Untimed(i) == entries[i].ModTime.kind \in {"missing", "bad"}

\* Entry i is older than entry j; equal times are ordered by the listing.
Older(i, j) ==
    \/ entries[i].ModTime.t < entries[j].ModTime.t
    \/ entries[i].ModTime.t = entries[j].ModTime.t /\ i < j

Pos(path) == CHOOSE i \in 1..Len(entries) : entries[i].Path = path

Dels == CallsOf("deletefile")

DelPos(k) == Pos(Dels[k].arg[1])

\* The archives that have at least keep newer archives.
Excess == {i \in Archives : Cardinality({j \in Archives : Older(i, j)}) >= keep}

\* C6: over n archives with valid modification times, a rotation whose
\* deletes all succeed issues no delete when n <= keep and otherwise
\* exactly n - keep deletes, of the n - keep oldest archives, oldest first
\* (equal times in listing order); the keep newest archives and every
\* other file stay on the remote.
C6_RotationDeletesOldest ==
    (rotpc = "returned" /\ \A i \in Archives : ~Untimed(i)) =>
        LET n == Cardinality(Archives)
        IN /\ n <= keep => Dels = <<>>
           /\ n > keep => Len(Dels) = n - keep
           /\ {DelPos(k) : k \in 1..Len(Dels)} = Excess
           /\ \A a, b \in 1..Len(Dels) : a < b => Older(DelPos(a), DelPos(b))
           /\ remote = SelectSeq(entries,
                                 LAMBDA e : \A i \in Excess : entries[i].Path # e.Path)

\* C6 witness: two deletes were issued and a kept archive has the same
\* modification time as a deleted one.
C6_Witness ==
    /\ rotpc = "returned"
    /\ \A i \in Archives : ~Untimed(i)
    /\ Len(Dels) = 2
    /\ \E i \in Archives \ Excess :
          entries[i].ModTime = entries[DelPos(2)].ModTime

\* C7: over more than keep archives of which some have no usable
\* modification time and some have one, the rotation completes (unless a
\* delete command fails) and deletes the archives without a usable time
\* before any archive with one.
C7_UntimedEntriesDeletedFirst ==
    ( /\ rotpc \in {"returned", "raised"}
      /\ failedAt # "deletefile"
      /\ Cardinality(Archives) > keep
      /\ \E i \in Archives : Untimed(i)
      /\ \E i \in Archives : ~Untimed(i) ) =>
        /\ rotpc = "returned"
        /\ \A a, b \in 1..Len(Dels) :
              (~Untimed(DelPos(a)) /\ Untimed(DelPos(b))) => b < a

----------------------------------------------------------------------------
\* C8 as stated: after a successful upload, a failure to delete the
\* staging directory or the local final bundle does not fail the run.
C8_CleanupFailureNotFatal ==
    (UploadSucceeded /\ pc = "failed") => failedAt \notin {"rmtree", "unlink"}

\* C8 as amended: a failure to delete the staging directory or the local
\* final bundle, which can only follow a successful upload, ends the run
\* in failure before the rotation stage: no remote listing or delete is
\* issued.
C8_CleanupFailureIsFatal ==
    failedAt \in {"rmtree", "unlink"} =>
        /\ UploadSucceeded
        /\ pc = "failed"
        /\ outcome = "raised"
        /\ rotpc = "idle"
        /\ Count("lsjson") = 0
        /\ Count("deletefile") = 0

\* C8 witness: rmtree failed after the upload and the staging directory
\* is still there.
C8_Witness ==
    /\ failedAt = "rmtree"
    /\ pc = "failed"
    /\ UploadSucceeded
    /\ temp_dir \in fs

\* C9: a run that ends in failure after it created its staging directory
\* still has the staging directory and every file it put into it.
C9_FailureKeepsStaging ==
    (pc = "failed" /\ temp_dir \in created) =>
        /\ temp_dir \in fs
        /\ \A x \in created : IsUnder(x, temp_dir) => x \in fs

\* C10: a failed run reports the error, the staging directory whenever
\* one exists and the final bundle whenever one (possibly partial) exists.
C10_FailureReportsArtifacts ==
    pc = "failed" =>
        /\ report.error
        /\ temp_dir \in fs => temp_dir \in report.paths
        /\ FinalBundle \in fs => FinalBundle \in report.paths

----------------------------------------------------------------------------
\* A name of the form .docker-backup-temp-<timestamp>.
IsStagingName(name) ==
    /\ Len(name) = 8
    /\ SubSeq(name, 1, 7) = <<".", "docker", "-", "backup", "-", "temp", "-">>

\* A staging directory of some run, or something inside one.
InSomeStaging(path) == \E i \in 1..Len(path) : IsStagingName(path[i])

\* C11: the project tree archive written by a run holds no staging
\* directory and nothing that lies in one, whatever runs went before on
\* the same project directory.
C11_TreeArchiveExcludesStaging ==
    \A x \in archived : ~InSomeStaging(x)

----------------------------------------------------------------------------
\* The name of the file this run's upload command copied to the remote.
Uploaded == NameOf(CallsOf("upload")[1].arg)

OnRemote(name) == \E i \in 1..Len(remote) : remote[i].Path = name

\* C12: when the remote listing fails or its payload cannot be parsed,
\* the rotation raises and the run ends in failure; no remote delete has
\* been issued, and the file this run uploaded (the final bundle whenever
\* the bundle is what it uploaded) is still on the remote.
C12_ListingFailureKeepsUpload ==
    failedAt \in {"lsjson", "json"} =>
        /\ rotpc = "raised"
        /\ pc \in {"rotate", "failed"}
        /\ pc = "failed" => outcome = "raised"
        /\ Count("lsjson") = 1
        /\ Count("deletefile") = 0
        /\ UploadSucceeded
        /\ OnRemote(Uploaded)
        /\ BundleUploaded => OnRemote(NameOf(FinalBundle))

\* C12 witness: the listing failed in a run that uploaded its bundle to a
\* remote holding more than keep archives, and the run has failed.
C12_Witness ==
    /\ pc = "failed"
    /\ failedAt = "lsjson"
    /\ BundleUploaded
    /\ OnRemote(NameOf(FinalBundle))
    /\ Len(Backups(remote)) > keep

----------------------------------------------------------------------------
\* extract_named_volumes over enumerated compose files.

\* Largest number of services of an enumerated compose file.
MaxServices == 2
\* Largest number of volume mounts of an enumerated compose file.
MaxMounts == 2
\* Largest number of top-level volume definitions of an enumerated file.
MaxDefs == 1

\* Volume sources: two volume keys and three host paths, ".conf", "~conf"
\* and "conf/data".
VolumeKeys == {<<"data">>, <<"dbdata">>}

HostPaths == {<<".", "conf">>, <<"~", "conf">>, <<"conf", "/", "data">>}

ExternalNames == {<<"dbdata">>, <<"shop", "_", "dbdata">>}

\* The mounts of a service: "source:/var" for every source, the structured
\* form for a volume key and for a host path, and one without a source.
Mounts ==
    {ShortForm(s \o <<":", "/", "var">>) : s \in VolumeKeys \cup HostPaths}
        \cup {LongForm(<<"data">>), LongForm(<<".", "conf">>), LongForm(<<>>)}

\* The services of a compose file of n services and k mounts: the mounts in
\* file order, each assigned to a service.
ServiceLists(n, k) ==
    {[i \in 1..n |-> SelectSeq([j \in 1..k |-> [svc |-> of[j], v |-> flat[j]]],
                               LAMBDA m : m.svc = i)] :
        flat \in [1..k -> Mounts],
        of \in {f \in [1..k -> 1..n] : \A a, b \in 1..k : a < b => f[a] <= f[b]}}

Services(n, k) ==
    {[i \in 1..n |-> [j \in 1..Len(l[i]) |-> l[i][j].v]] : l \in ServiceLists(n, k)}

Definitions == {NullDef, PlainDef} \cup {NamedDef(n) : n \in ExternalNames}

\* The keys of top-level definitions: the volume keys and a host path.
DefinedKeys == VolumeKeys \cup {<<".", "conf">>}

\* The top-level volumes mappings of at most n keys.
TopVolumes(n) ==
    UNION {{ {[key |-> k, def |-> f[k]] : k \in Ks} : f \in [Ks -> Definitions] } :
              Ks \in {K \in SUBSET DefinedKeys : Cardinality(K) <= n}}

\* A run on project shop that has just moved its project zip into the
\* staging directory and now reads the compose file.
InitDiscover ==
    /\ InitEnv
    /\ remote = <<>>
    /\ \E n \in 0..MaxServices, k \in 0..MaxMounts :
          \E s \in Services(n, k), t \in TopVolumes(MaxDefs) :
             compose = [services |-> s, volumes |-> t]
    /\ mode = "single"
    /\ runs = 1
    /\ pc = "discover"
    /\ project_dir = << <<"shop">> >>
    /\ timestamp = strftime(clock)
    /\ keep = DefaultKeep
    /\ volumes = <<>>
    /\ exported = <<>>
    /\ final_zip_path = NoPath
    /\ calls = <<Call("zip", make_archive_target(zip_base)),
                 Call("mkdir", temp_dir), Call("move", project_zip_outside)>>
    /\ outcome = "none"
    /\ report = NoReport
    /\ failedAt = "none"
    /\ fs = {project_dir, temp_dir, project_zip}
    /\ created = {temp_dir, project_zip}
    /\ archived = {}
    /\ overwritten = {}
    /\ rotpc = "idle"
    /\ entries = <<>>
    /\ to_delete = <<>>
    /\ project_dirs = <<>>
    /\ attempted = <<>>
    /\ failures = <<>>
    /\ results = <<>>
    /\ batchResult = "none"

NextDiscover == Discover

SpecDiscover == InitDiscover /\ [][NextDiscover]_vars

----------------------------------------------------------------------------
\* Vocabulary of the discovery properties.

\* The positions <<i, j>> of the mounts of the compose file.
MountsOf(data) ==
    UNION {{<<i, j>> : j \in 1..Len(data.services[i])} :
              i \in 1..Len(data.services)}

MountAt(data, p) == data.services[p[1]][p[2]]

\* The source of a mount: what stands before the first ":" of the short
\* form, the source field of the structured form.
SourceOf(v) ==
    IF v.form = "dict" THEN v.source
    ELSE IF \E i \in 1..Len(v.text) : v.text[i] = ":"
         THEN CHOOSE s \in {SubSeq(v.text, 1, n) : n \in 0..Len(v.text)} :
                 /\ \A i \in 1..Len(s) : s[i] # ":"
                 /\ v.text[Len(s) + 1] = ":"
         ELSE v.text

\* A bind mount: the source contains "/" or starts with "." or "~".
IsBindMount(v) ==
    LET src == SourceOf(v)
    IN /\ src # <<>>
       /\ \/ "/" \in {src[i] : i \in 1..Len(src)}
          \/ Head(src) \in {".", "~"}

\* The resolved name of a key: the explicit name of its top-level
\* definition if that has one, the key itself otherwise.
ResolvedName(key, data) ==
    IF \E d \in data.volumes : d.key = key /\ d.def.named
    THEN (CHOOSE d \in data.volumes : d.key = key /\ d.def.named).def.name
    ELSE key

\* The resolved names of the sources of the mounts that are no bind mounts.
ResolvedNames(data) ==
    {ResolvedName(SourceOf(MountAt(data, p)), data) :
        p \in {q \in MountsOf(data) : /\ SourceOf(MountAt(data, q)) # <<>>
                                      /\ ~IsBindMount(MountAt(data, q))}}

\* C13: extract_named_volumes returns a strictly ascending list whose
\* elements are exactly the resolved names of the sources of all mounts
\* that are no bind mounts, each name once.
C13_DiscoveryIsSortedSetOfResolvedNames ==
    pc = "detect" =>
        /\ \A i, j \in 1..Len(volumes) : i < j => NameLess(volumes[i], volumes[j])
        /\ {volumes[i] : i \in 1..Len(volumes)} = ResolvedNames(compose)
        /\ Len(volumes) = Cardinality(ResolvedNames(compose))

\* C13 witness: two services mount different keys that resolve to one
\* external name, and the result holds that name once.
C13_Witness ==
    /\ pc = "detect"
    /\ Len(compose.services) = 2
    /\ \E p, q \in MountsOf(compose) :
          /\ p[1] # q[1]
          /\ SourceOf(MountAt(compose, p)) # SourceOf(MountAt(compose, q))
          /\ \E d \in compose.volumes :
                d.key = SourceOf(MountAt(compose, p)) /\ d.def.named
          /\ ResolvedName(SourceOf(MountAt(compose, p)), compose)
                = ResolvedName(SourceOf(MountAt(compose, q)), compose)
    /\ Len(volumes) = 1

\* The sequence s without its j-th element.
RemoveAt(s, j) == SubSeq(s, 1, j - 1) \o SubSeq(s, j + 1, Len(s))

\* The compose file without the mount at position p.
WithoutMount(data, p) ==
    [data EXCEPT !.services[p[1]] = RemoveAt(@, p[2])]

BindMountsOf(data) == {p \in MountsOf(data) : IsBindMount(MountAt(data, p))}

\* C14: a mount whose source contains "/" or starts with "." or "~" adds
\* nothing to the result: the result is what the compose file without that
\* mount gives, whatever the top-level definitions hold, and holds a name
\* only if a mount that is no bind mount resolves to it.
C14_BindMountsAddNothing ==
    pc = "detect" =>
        /\ \A p \in BindMountsOf(compose) :
              volumes = extract_named_volumes(WithoutMount(compose, p))
        /\ (MountsOf(compose) = BindMountsOf(compose)) => volumes = <<>>

\* C14 witness: a bind mount whose source is the key of a top-level
\* definition with an explicit name, in the short and in the structured
\* form.
C14_Witness ==
    /\ pc = "detect"
    /\ \E p, q \in BindMountsOf(compose) :
          /\ MountAt(compose, p).form = "str"
          /\ MountAt(compose, q).form = "dict"
          /\ \E d \in compose.volumes :
                /\ d.key = SourceOf(MountAt(compose, p))
                /\ d.key = SourceOf(MountAt(compose, q))
                /\ d.def.named
    /\ volumes = <<>>

----------------------------------------------------------------------------
\* Vocabulary of the ordering properties, over the operations of the run.

Ops == {calls[i].op : i \in 1..Len(calls)}

LastOp == calls[Len(calls)].op

\* The stage an operation belongs to, in the order of the workflow: tree
\* archive, staging directory, discovery, stop, exports, start, bundle,
\* upload, local cleanup, remote listing, remote deletes.
StageOf(op) ==
    CASE op = "zip" -> 1
      [] op \in {"mkdir", "move"} -> 2
      [] op \in {"discover", "detect"} -> 3
      [] op = "down" -> 4
      [] op = "export" -> 5
      [] op = "up" -> 6
      [] op = "bundle" -> 7
      [] op = "upload" -> 8
      [] op \in {"rmtree", "unlink"} -> 9
      [] op = "lsjson" -> 10
      [] op = "deletefile" -> 11

\* The operations that may follow one another directly.
Follows ==
    { <<"zip", "mkdir">>, <<"mkdir", "move">>, <<"move", "discover">>,
      <<"discover", "detect">>, <<"detect", "down">>, <<"down", "export">>,
      <<"down", "up">>, <<"export", "export">>, <<"export", "up">>,
      <<"up", "bundle">>, <<"bundle", "upload">>, <<"upload", "rmtree">>,
      <<"rmtree", "unlink">>, <<"rmtree", "lsjson">>, <<"unlink", "lsjson">>,
      <<"lsjson", "deletefile">>, <<"deletefile", "deletefile">> }

\* The operation whose failure is recorded as f.
FailedOp(f) == IF f \in {"json", "sort"} THEN "lsjson" ELSE f

\* C15: the operations of a run occur in the one forward order of the
\* stages, none twice (an export per volume, a delete per entry), each
\* after the one before it succeeded; the operation that failed is the
\* last one of the run.
C15_StagesInFixedForwardOrder ==
    /\ calls # <<>> => calls[1].op = "zip"
    /\ \A i \in 1..(Len(calls) - 1) :
          /\ <<calls[i].op, calls[i + 1].op>> \in Follows
          /\ StageOf(calls[i].op) <= StageOf(calls[i + 1].op)
    /\ \A i, j \in 1..Len(calls) : i < j => calls[i] # calls[j]
    /\ \A op \in Ops \ {"export", "deletefile"} : Count(op) = 1
    /\ failedAt = "validate" => calls = <<>>
    /\ failedAt = "keep" => LastOp \in {"rmtree", "unlink"}
    /\ failedAt \notin {"none", "validate", "keep"} => LastOp = FailedOp(failedAt)
    /\ pc \in {"failed", "done"} => \A op \in Ops : StageOf(op) <= StageOf(LastOp)

\* C15 witness: a run that went through every stage, with two exports
\* and a remote delete, and ended in success.
C15_Witness ==
    /\ outcome = "ok"
    /\ Count("export") = 2
    /\ Count("unlink") = 1
    /\ Count("deletefile") = 1
    /\ {StageOf(op) : op \in Ops} = 1..11

\* The position of the one call of op in the log of the run.
PosOf(op) == CHOOSE i \in 1..Len(calls) : calls[i].op = op

\* C16: in a run that restarted the services, the exports issued are
\* those of the volumes of the discovery result, one each, in the
\* ascending order of that result, all after the stop and before the start
\* of the services; and a run that bundles has stopped and restarted the
\* services once, also when there is no volume to export.
C16_ExportsBetweenStopAndStart ==
    /\ Count("up") >= 1 =>
          /\ Count("down") = 1
          /\ Count("up") = 1
          /\ \A i, j \in 1..Len(volumes) :
                i < j => NameLess(volumes[i], volumes[j])
          /\ Count("export") = Len(volumes)
          /\ \A i \in 1..Len(volumes) :
                CallsOf("export")[i].arg = archive_path(volumes[i])
          /\ exported = [i \in 1..Len(volumes) |-> archive_path(volumes[i])]
          /\ \A i \in 1..Len(calls) :
                calls[i].op = "export" => PosOf("down") < i /\ i < PosOf("up")
    /\ Count("bundle") >= 1 =>
          /\ Count("down") = 1
          /\ Count("up") = 1
          /\ PosOf("down") < PosOf("up")
          /\ PosOf("up") < PosOf("bundle")

\* C16 witness: two volumes were exported between stop and start, and the
\* run went on to upload.
C16_Witness ==
    /\ Len(volumes) = 2
    /\ Count("export") = 2
    /\ Count("up") = 1
    /\ UploadSucceeded

\* The stages before the stop of the services.
BeforeStop == {"validate", "zip", "mkdir", "move", "discover", "detect"}

\* C17: a run that failed before the stop of the services has issued no
\* stop, start, export, upload or remote delete; a run that ended in
\* success has issued one stop and one start, the stop first; and no
\* export is ever issued without the stop before it or with the start
\* before it.
C17_StoppedOnlyBetweenStopAndStart ==
    /\ (pc = "failed" /\ failedAt \in BeforeStop) =>
          \A op \in {"down", "up", "export", "upload", "deletefile"} :
             Count(op) = 0
    /\ outcome = "ok" =>
          /\ Count("down") = 1
          /\ Count("up") = 1
          /\ PosOf("down") < PosOf("up")
    /\ Count("down") <= 1
    /\ Count("up") <= Count("down")
    /\ (pc = "export" \/ (calls # <<>> /\ LastOp = "export")) =>
          Count("down") = 1 /\ Count("up") = 0

\* C17 witness: the compose command was not found, after the staging
\* directory was made: the run failed and nothing was stopped.
C17_Witness ==
    /\ pc = "failed"
    /\ failedAt = "detect"
    /\ temp_dir \in fs
    /\ Count("down") = 0

----------------------------------------------------------------------------
\* A batch over the projects p1 .. p5 that share one remote destination.

\* The archive name <projectName>-<timestamp>.zip of a run on project p
\* started at time t.
BundleName(p, t) == NameOf(p) \o <<"-", strftime(t), ".", "zip">>

\* The batch has backed up the first DefaultKeep projects, each with
\* success: nothing of them is left on the local disk and the remote holds
\* their bundles, uploaded one after the other; the last project is still
\* to come.
InitShared ==
    /\ clock = 1
    /\ mclock = MaxOldTime + DefaultKeep + 1
    /\ partial = {}
    /\ compose \in ProjectDescriptors
    /\ LET dirs == [i \in 1..Cardinality(SharedProjects) |->
                       <<sorted(SharedProjects)[i]>>]
       IN /\ fs = {dirs[i] : i \in 1..Len(dirs)}
          /\ attempted = SubSeq(dirs, 1, DefaultKeep)
          /\ project_dirs = SubSeq(dirs, DefaultKeep + 1, Len(dirs))
          /\ results = [i \in 1..DefaultKeep |-> [p |-> dirs[i], outcome |-> "ok"]]
          /\ remote = [i \in 1..DefaultKeep |->
                          Entry(BundleName(dirs[i], clock), Aware(MaxOldTime + i))]
    /\ failures = <<>>
    /\ batchResult = "none"
    /\ mode = "batch"
    /\ runs = 1
    /\ keep = DefaultKeep
    /\ pc = "idle"
    /\ project_dir = NoPath
    /\ timestamp = strftime(1)
    /\ volumes = <<>>
    /\ exported = <<>>
    /\ final_zip_path = NoPath
    /\ calls = <<>>
    /\ outcome = "none"
    /\ report = NoReport
    /\ failedAt = "none"
    /\ created = {}
    /\ archived = {}
    /\ overwritten = {}
    /\ rotpc = "idle"
    /\ entries = <<>>
    /\ to_delete = <<>>

\* The rest of the batch.
NextShared ==
    \/ BatchCall
    \/ BatchReturn
    \/ BatchFinish
    \/ Tick
    \/ RunStep

SpecShared == InitShared /\ [][NextShared]_vars

\* name is a bundle of project p.
IsBundleOf(name, p) == \E t \in 1..Len(TsTokens) : name = BundleName(p, t)

\* The projects of this batch whose run ended in success.
Succeeded == {results[i].p : i \in {j \in 1..Len(results) : results[j].outcome = "ok"}}

\* C18: in a batch, the rotation of a project's run deletes no bundle of
\* another project that this batch backed up with success, and the remote
\* holds a bundle of every project the batch backed up with success.
C18_RotationSparesOtherProjects ==
    mode = "batch" =>
        /\ \A i \in 1..Len(Dels) : \A p \in Succeeded \ {project_dir} :
              ~IsBundleOf(Dels[i].arg[1], p)
        /\ \A p \in Succeeded : \E i \in 1..Len(remote) : IsBundleOf(remote[i].Path, p)

----------------------------------------------------------------------------
\* C19: a run of backup_project with keep < 1 issues no remote listing and
\* no remote delete and never ends in success; when it fails on the
\* retention count it has done the whole backup before (stop, every
\* export, start, bundle, upload, local cleanup), and the archives the
\* remote held before it are still there.
C19_InvalidKeepFailsAtRotation ==
    (mode = "single" /\ keep < 1) =>
        /\ Count("lsjson") = 0
        /\ Count("deletefile") = 0
        /\ outcome # "ok"
        /\ rotpc \in {"idle", "start", "raised"}
        /\ rotpc = "raised" => failedAt = "keep"
        /\ rotpc = "start" => failedAt = "none"
        /\ failedAt = "keep" =>
              /\ Count("down") = 1
              /\ Count("export") = Len(volumes)
              /\ Count("up") = 1
              /\ Count("bundle") = 1
              /\ UploadSucceeded
              /\ Count("rmtree") = 1
              /\ temp_dir \notin fs
              /\ final_zip_path \notin fs
              /\ pc = "failed" => outcome = "raised"
        /\ runs = 1 =>
              \E r \in InitialRemotes : \A i \in 1..Len(r) : OnRemote(r[i].Path)

\* C19 witness: with keep = 0 and a remote that holds archives, a run
\* with two volumes did the whole backup and failed on the retention
\* count.
C19_Witness ==
    /\ mode = "single"
    /\ keep = 0
    /\ pc = "failed"
    /\ failedAt = "keep"
    /\ Len(volumes) = 2
    /\ BundleUploaded
    /\ Len(Backups(remote)) >= 2

----------------------------------------------------------------------------
\* A run that found the staging directory of its timestamp in place: a
\* run with the same timestamp made it.
LostStaging == pc = "failed" /\ failedAt = "mkdir" /\ outcome = "exit"

\* C20: of two runs on one project with the same timestamp, the one that
\* finds the staging directory in place ends in failure and has neither
\* overwritten nor removed a file or directory of the other run.
C20_LosingRunTouchesNothing ==
    LostStaging =>
        /\ overwritten = {}
        /\ Deleted = {}
        /\ temp_dir \in fs
        /\ temp_dir \notin created

====
